---------------------------- MODULE Spec2Model ----------------------------
(***************************************************************************)
(* Model of demo.py: the employment-certificate generator.                 *)
(*                                                                         *)
(* Text is modelled character by character: a Python str is a sequence of  *)
(* one-character tokens.  Strings are ASCII here, so every non-ASCII       *)
(* character of the source is written as an ASCII token:                   *)
(*   "comma" = U+FF0C fullwidth comma   "lparen"/"rparen" = U+FF08/U+FF09  *)
(*   "colon" = U+FF1A fullwidth colon   "nian"/"yue"/"ri" = year/month/day *)
(*   the other Chinese characters by their pinyin, with a digit suffix     *)
(*   where two characters share a pinyin ("nan" male, "nan2" south,        *)
(*   "xi" department, "xi2" as in xinxi, "ye" as in zhuanye/biye).         *)
(* "*", "/", " " and the digits are themselves.                            *)
(***************************************************************************)
EXTENDS Integers, Sequences, FiniteSets, TLC

VARIABLES
    exists,          \* the input paths that exist (os.path.exists)
    name_lines,      \* the lines of the roster file
    sheet_columns,   \* the column names of the spreadsheet
    sheet_rows,      \* the data rows of the spreadsheet
    template,        \* the template document on disk
    pc,              \* position of the program
    names,           \* process_certificates: names
    student_info,    \* process_certificates: student_info
    first_half,      \* process_certificates: first_half
    second_half,     \* process_certificates: second_half
    idx,             \* position of "for name in names" (1-based)
    join_date,       \* process_certificates: join_date
    issue_date,      \* process_certificates: issue_date
    doc,             \* process_certificates: doc
    dir_exists,      \* whether the output directory exists
    files,           \* the files of the output directory: name |-> document
    stdout           \* what the program has printed

vars == <<exists, name_lines, sheet_columns, sheet_rows, template, pc, names,
          student_info, first_half, second_half, idx, join_date, issue_date,
          doc, dir_exists, files, stdout>>

Range(s) == {s[i] : i \in 1..Len(s)}

-----------------------------------------------------------------------------
(* Python str operations on token sequences                                *)

\* "sub in s"
Contains(s, sub) ==
    \E i \in 1..(Len(s) - Len(sub) + 1) :
        s[i] = sub[1] /\ SubSeq(s, i, i + Len(sub) - 1) = sub

\* s.replace(old, new): every non-overlapping occurrence, left to right
Occurrences(s, sub) ==
    {i \in 1..(Len(s) - Len(sub) + 1) :
        s[i] = sub[1] /\ SubSeq(s, i, i + Len(sub) - 1) = sub}

RECURSIVE Replace(_, _, _)
Replace(s, old, new) ==
    LET occ == Occurrences(s, old)
    IN  IF occ = {} THEN s
        ELSE LET i == CHOOSE j \in occ : \A k \in occ : j <= k
             IN  SubSeq(s, 1, i - 1) \o new
                     \o Replace(SubSeq(s, i + Len(old), Len(s)), old, new)

\* s.strip(): leading and trailing whitespace removed
RECURSIVE LStrip(_)
LStrip(s) == IF s # <<>> /\ Head(s) = " " THEN LStrip(Tail(s)) ELSE s

RECURSIVE RStrip(_)
RStrip(s) ==
    IF s # <<>> /\ s[Len(s)] = " " THEN RStrip(SubSeq(s, 1, Len(s) - 1)) ELSE s

Strip(s) == RStrip(LStrip(s))

\* the decimal digits of n, zero-padded to at least width characters
Digit(n) == CASE n = 0 -> "0" [] n = 1 -> "1" [] n = 2 -> "2" [] n = 3 -> "3"
              [] n = 4 -> "4" [] n = 5 -> "5" [] n = 6 -> "6" [] n = 7 -> "7"
              [] n = 8 -> "8" [] n = 9 -> "9"

RECURSIVE Padded(_, _)
Padded(n, width) ==
    IF width <= 1 /\ n < 10 THEN <<Digit(n)>>
    ELSE Padded(n \div 10, width - 1) \o <<Digit(n % 10)>>

-----------------------------------------------------------------------------
(* datetime                                                                *)

\* the month get_workdays is written for
Year == 2025
Month == 7
\* days in July
DaysInMonth == 31
\* weekday() of start_date: "2025-07-01 is a Tuesday" (Monday = 0)
StartWeekday == 1

datetime(y, m, d) == [year |-> y, month |-> m, day |-> d]

\* datetime(2025, 7, i) raises ValueError when day i is not in the month
ValueError(y, m, d) == d < 1 \/ d > DaysInMonth

start_date == datetime(Year, Month, 1)

\* start_date + timedelta(days=i); i stays below a month here
PlusDays(date, i) ==
    IF date.day + i <= DaysInMonth
    THEN datetime(date.year, date.month, date.day + i)
    ELSE datetime(date.year, date.month + 1, date.day + i - DaysInMonth)

\* days from start_date to date
DaysSinceStart(date) == (date.month - Month) * DaysInMonth + (date.day - 1)

\* date.weekday(): Monday = 0 .. Sunday = 6
weekday(date) == (StartWeekday + DaysSinceStart(date)) % 7

\* date.strftime('%Y<nian>%m<yue>%d<ri>')
strftime(date) ==
    Padded(date.year, 4) \o <<"nian">> \o Padded(date.month, 2) \o <<"yue">>
        \o Padded(date.day, 2) \o <<"ri">>

NoDate == datetime(0, 0, 0)

-----------------------------------------------------------------------------
(* get_workdays                                                            *)

\* range(15): the first half is start_date + 0 .. start_date + 14
FirstHalfDays == 15
\* range(16, 32): the second half is day 16 .. day 31
SecondHalfFrom == 16
SecondHalfStop == 32

IsWorkday_Saturday(date) == weekday(date) < 6

\* current_date.weekday() < 5
IsWorkday(date) == weekday(date) < 5

\* for i in range(15): ... first_half_workdays.append(current_date)
RECURSIVE FirstHalfLoop(_, _)
FirstHalfLoop(i, acc) ==
    IF i >= FirstHalfDays THEN acc
    ELSE LET current_date == PlusDays(start_date, i)
         IN  FirstHalfLoop(i + 1, IF IsWorkday(current_date)
                                  THEN Append(acc, current_date) ELSE acc)

\* for i in range(16, 32): try ... except ValueError: break
RECURSIVE SecondHalfLoop(_, _)
SecondHalfLoop(i, acc) ==
    IF i >= SecondHalfStop THEN acc
    ELSE IF ValueError(Year, Month, i) THEN acc
    ELSE LET current_date == datetime(Year, Month, i)
         IN  SecondHalfLoop(i + 1, IF IsWorkday(current_date)
                                   THEN Append(acc, current_date) ELSE acc)

first_half_workdays_From1 == FirstHalfLoop(1, <<>>)

first_half_workdays == FirstHalfLoop(0, <<>>)

second_half_workdays_From15 == SecondHalfLoop(SecondHalfFrom - 1, <<>>)

second_half_workdays == SecondHalfLoop(SecondHalfFrom, <<>>)

\* get_workdays() returns (first_half_workdays, second_half_workdays)
get_workdays == <<first_half_workdays, second_half_workdays>>

-----------------------------------------------------------------------------
(* Documents (python-docx): a document is a sequence of paragraphs, a      *)
(* paragraph a sequence of runs, a run its text and its font attributes.   *)

NoFont == "None"
SimSun == "SimSun"   \* the font name of lines 87 and 91
\* Pt(16)
Pt16 == 16

Run(text, font) == [text |-> text, name |-> font.name, size |-> font.size,
                    eastAsia |-> font.eastAsia]

\* para.text (get): the runs' text, concatenated
RECURSIVE RunsText(_)
RunsText(runs) == IF runs = <<>> THEN <<>> ELSE Head(runs).text \o RunsText(Tail(runs))

ParaText(para) == RunsText(para)

\* para.text = t (set): the runs are dropped and one unformatted run holds t
SetParaText(para, t) ==
    <<[text |-> t, name |-> NoFont, size |-> 0, eastAsia |-> NoFont]>>

\* for run in para.runs: font.name, font.size and w:eastAsia are set
SetFonts(para) ==
    [i \in 1..Len(para) |->
        [para[i] EXCEPT !.name = SimSun, !.size = Pt16, !.eastAsia = SimSun]]

-----------------------------------------------------------------------------
(* replace_placeholders                                                    *)

Stars(n) == [i \in 1..n |-> "*"]

\* "xi hu nan li gong xue yuan xin xi ke xue yu gong cheng xue yuan"
College == <<"xi", "hu", "nan2", "li", "gong", "xue", "yuan", "xin", "xi2",
             "ke", "xue", "yu", "gong", "cheng", "xue", "yuan">>

\* "zhuan ye 2025 jie bi ye sheng (shen fen zheng hao:"
Graduate == <<"zhuan", "ye", "2", "0", "2", "5", "jie", "bi", "ye", "sheng",
              "lparen", "shen", "fen", "zheng", "hao", "colon">>

\* target_texts[0], [1], [2]
IdentityMarker ==
    Stars(4) \o <<"comma", "nan", "/", "nv", "comma">> \o College \o Stars(5)
        \o Graduate \o Stars(6) \o <<"rparen">>

JoinMarker == <<"*", "*", "nian", "*", "*", "yue", "*", "*", "ri">>

IssueMarker == <<"nian", " ", " ", " ", "yue", " ", " ", " ", "ri">>

target_texts == <<IdentityMarker, JoinMarker, IssueMarker>>

\* new_text = f'{name},{gender},...{major}...{id_card})'
new_text(name, gender, id_card, major) ==
    name \o <<"comma">> \o gender \o <<"comma">> \o College \o major
        \o Graduate \o id_card \o <<"rparen">>

\* if target_texts[k] in para.text: para.text = para.text.replace(...)
ReplaceIn(para, marker, new) ==
    IF Contains(ParaText(para), marker)
    THEN SetParaText(para, Replace(ParaText(para), marker, new))
    ELSE para

HasTarget_Always(para) == TRUE

\* any(text in para.text for text in target_texts)
HasTarget(para) ==
    \E k \in 1..Len(target_texts) : Contains(ParaText(para), target_texts[k])

\* the body of "for para in doc.paragraphs"
FillParagraph(para, name, gender, id_card, major, join, issue) ==
    IF HasTarget(para)
    THEN LET p1 == ReplaceIn(para, target_texts[1],
                             new_text(name, gender, id_card, major))
             p2 == ReplaceIn(p1, target_texts[2], strftime(join))
             p3 == ReplaceIn(p2, target_texts[3], strftime(issue))
         IN  SetFonts(p3)
    ELSE para

replace_placeholders(d, name, gender, id_card, major, join, issue) ==
    [i \in 1..Len(d) |->
        FillParagraph(d[i], name, gender, id_card, major, join, issue)]

-----------------------------------------------------------------------------
(* The files the program reads                                             *)

name_list_path == "mingdan.txt"
student_info_path == "xueshengxinxi.xlsx"
template_path == "yonggongzhengming[muban]"
Paths == {name_list_path, student_info_path, template_path}

\* the columns read_student_info reads: name, gender, identity number, major
RequiredColumns == {"xingming", "xingbie", "shenfenzhenghao", "zhuanye"}

ZhangSan == <<"zhang", "san">>
WangWu == <<"wang", "wu">>
Male == <<"nan">>
Female == <<"nv">>
SoftwareEng == <<"ruan", "jian", "gong", "cheng">>
Network == <<"wang2", "luo", "gong", "cheng">>
Id430 == <<"4", "3", "0">> \o [i \in 1..15 |-> "X"]
Id431 == <<"4", "3", "1">> \o [i \in 1..15 |-> "X"]

Row(n, g, id, m) ==
    [xingming |-> n, xingbie |-> g, shenfenzhenghao |-> id, zhuanye |-> m]

RowZhang == Row(ZhangSan, Male, Id430, SoftwareEng)
RowZhang2 == Row(ZhangSan, Male, Id430, Network)
RowWang == Row(WangWu, Female, Id431, Network)

\* the spreadsheets: empty, one student, two students, one student twice
SheetRows == {<<>>, <<RowZhang>>, <<RowZhang, RowWang>>, <<RowZhang, RowZhang2>>}

SheetColumns == {RequiredColumns, RequiredColumns \ {"zhuanye"},
                 RequiredColumns \ {"xingming"}}

\* the lines a roster file is made of: a blank line, a name, a padded name
BlankLine == <<" ">>
Lines == {BlankLine, ZhangSan, <<" ">> \o WangWu \o <<" ">>}

\* the longest roster file
MaxLines == 2

NameLists == UNION {[1..n -> Lines] : n \in 0..MaxLines}

Font(n, sz) == [name |-> n, size |-> sz, eastAsia |-> n]

HeadingFont == Font("SimHei", 22)
BodyFont == Font("FangSong", 14)

\* a heading: no marker
TitlePara == <<Run(<<"yong", "gong", "zheng", "ming">>, HeadingFont)>>
\* the identity marker, split over two runs
IdPara == <<Run(SubSeq(IdentityMarker, 1, 9), BodyFont),
            Run(SubSeq(IdentityMarker, 10, Len(IdentityMarker)), HeadingFont)>>
\* the join-date marker inside a sentence
JoinPara == <<Run(<<"yu">> \o JoinMarker, BodyFont), Run(<<"ru", "zhi">>, BodyFont)>>
\* the issue-date marker alone
IssuePara == <<Run(IssueMarker, BodyFont)>>

Templates == {<<TitlePara, IdPara, JoinPara>>, <<TitlePara, IssuePara>>}

NoDoc == <<>>
NoFiles == [n \in {} |-> NoDoc]

-----------------------------------------------------------------------------
(* read_name_list, read_student_info                                       *)

\* [line.strip() for line in f if line.strip()]
RECURSIVE read_name_list(_)
read_name_list(lines) ==
    IF lines = <<>> THEN <<>>
    ELSE IF Strip(Head(lines)) # <<>>
         THEN <<Strip(Head(lines))>> \o read_name_list(Tail(lines))
         ELSE read_name_list(Tail(lines))

KeyError_Never(columns, rows) == FALSE

\* row['...'] raises KeyError on the first row when a column is missing
KeyError(columns, rows) == rows # <<>> /\ ~(RequiredColumns \subseteq columns)

\* student_info[name] = {...} row by row: a later row replaces an earlier one
RECURSIVE read_student_info(_)
read_student_info(rows) ==
    IF rows = <<>> THEN [n \in {} |-> Row(<<>>, <<>>, <<>>, <<>>)]
    ELSE LET row == rows[Len(rows)]
         IN  (row.xingming :> row) @@ read_student_info(SubSeq(rows, 1, Len(rows) - 1))

-----------------------------------------------------------------------------
(* __main__ and process_certificates                                       *)

Out(kind, arg) == [kind |-> kind, arg |-> arg]

Init ==
    /\ exists \in SUBSET Paths
    /\ name_lines \in NameLists
    /\ sheet_columns \in SheetColumns
    /\ sheet_rows \in SheetRows
    /\ template \in Templates
    /\ pc = "main"
    /\ names = <<>>
    /\ student_info = read_student_info(<<>>)
    /\ first_half = <<>>
    /\ second_half = <<>>
    /\ idx = 1
    /\ join_date = NoDate
    /\ issue_date = NoDate
    /\ doc = NoDoc
    /\ dir_exists = FALSE
    /\ files = NoFiles
    /\ stdout = <<>>

inputs == <<exists, name_lines, sheet_columns, sheet_rows, template>>
locals == <<names, student_info, first_half, second_half, idx, join_date,
            issue_date, doc>>

\* if not os.path.exists(name_list_path): print error
MainNoNameList ==
    /\ pc = "main"
    /\ name_list_path \notin exists
    /\ stdout' = Append(stdout, Out("error", <<name_list_path>>))
    /\ pc' = "exit"
    /\ UNCHANGED <<inputs, locals, dir_exists, files>>

\* elif not os.path.exists(student_info_path): print error
MainNoStudentInfo ==
    /\ pc = "main"
    /\ name_list_path \in exists
    /\ student_info_path \notin exists
    /\ stdout' = Append(stdout, Out("error", <<student_info_path>>))
    /\ pc' = "exit"
    /\ UNCHANGED <<inputs, locals, dir_exists, files>>

\* elif not os.path.exists(template_path): print error
MainNoTemplate ==
    /\ pc = "main"
    /\ name_list_path \in exists
    /\ student_info_path \in exists
    /\ template_path \notin exists
    /\ stdout' = Append(stdout, Out("error", <<template_path>>))
    /\ pc' = "exit"
    /\ UNCHANGED <<inputs, locals, dir_exists, files>>

\* else: process_certificates(...); names = read_name_list(name_list_path)
ReadNameList ==
    /\ pc = "main"
    /\ Paths \subseteq exists
    /\ names' = read_name_list(name_lines)
    /\ pc' = "read_student_info"
    /\ UNCHANGED <<inputs, student_info, first_half, second_half, idx,
                   join_date, issue_date, doc, dir_exists, files, stdout>>

\* student_info = read_student_info(student_info_path)
ReadStudentInfo ==
    /\ pc = "read_student_info"
    /\ ~KeyError(sheet_columns, sheet_rows)
    /\ student_info' = read_student_info(sheet_rows)
    /\ pc' = "get_workdays"
    /\ UNCHANGED <<inputs, names, first_half, second_half, idx, join_date,
                   issue_date, doc, dir_exists, files, stdout>>

\* the KeyError of read_student_info is caught nowhere: the program ends
ReadStudentInfoRaises ==
    /\ pc = "read_student_info"
    /\ KeyError(sheet_columns, sheet_rows)
    /\ pc' = "raised"
    /\ UNCHANGED <<inputs, locals, dir_exists, files, stdout>>

\* first_half, second_half = get_workdays()
GetWorkdays ==
    /\ pc = "get_workdays"
    /\ first_half' = get_workdays[1]
    /\ second_half' = get_workdays[2]
    /\ idx' = 1
    /\ pc' = "loop"
    /\ UNCHANGED <<inputs, names, student_info, join_date, issue_date, doc,
                   dir_exists, files, stdout>>

Document_Kept == IF doc = NoDoc THEN template ELSE doc

\* Document(template_path): a new document read from the template file
Document == template

\* "name not in student_info", negated
KnownName(name) == name \in DOMAIN student_info

continue_Break(i) == Len(names) + 1

\* continue: the loop goes on with the next name
continue(i) == i + 1

\* if name not in student_info: print warning; continue
LoopSkip ==
    /\ pc = "loop"
    /\ idx <= Len(names)
    /\ ~KnownName(names[idx])
    /\ stdout' = Append(stdout, Out("warning", names[idx]))
    /\ idx' = continue(idx)
    /\ UNCHANGED <<inputs, pc, names, student_info, first_half, second_half,
                   join_date, issue_date, doc, dir_exists, files>>

\* random.choice(seq): any element
choice(seq) == Range(seq)

\* info = student_info[name]; the two random.choice; Document; replace_placeholders
LoopFill ==
    /\ pc = "loop"
    /\ idx <= Len(names)
    /\ KnownName(names[idx])
    /\ LET name == names[idx]
           info == student_info[name]
       IN  \E join \in choice(first_half), issue \in choice(second_half) :
              /\ join_date' = join
              /\ issue_date' = issue
              /\ doc' = replace_placeholders(Document, name, info.xingbie,
                            info.shenfenzhenghao, info.zhuanye, join, issue)
              /\ stdout' = Append(stdout, Out("found", name))
    /\ pc' = "save"
    /\ UNCHANGED <<inputs, names, student_info, first_half, second_half, idx,
                   dir_exists, files>>

OutputName_Docx(name) == name \o <<".docx">>

\* the file name of output_path: f"{name}.doc"
OutputName(name) == name \o <<".doc">>

\* os.makedirs(output_dir) when it does not exist; doc.save(output_path).
\* The iteration ends here: join_date and issue_date are rebound (lines 120,
\* 121) before anything reads them again, so the model forgets them.
LoopSave ==
    /\ pc = "save"
    /\ dir_exists' = TRUE
    /\ files' = (OutputName(names[idx]) :> doc) @@ files
    /\ stdout' = (IF dir_exists THEN stdout ELSE Append(stdout, Out("mkdir", <<>>)))
                    \o <<Out("generated", OutputName(names[idx]))>>
    /\ idx' = idx + 1
    /\ join_date' = NoDate
    /\ issue_date' = NoDate
    /\ pc' = "loop"
    /\ UNCHANGED <<inputs, names, student_info, first_half, second_half, doc>>

\* the for loop is exhausted: process_certificates returns
LoopExit ==
    /\ pc = "loop"
    /\ idx > Len(names)
    /\ pc' = "exit"
    /\ UNCHANGED <<inputs, locals, dir_exists, files, stdout>>

Next ==
    \/ MainNoNameList
    \/ MainNoStudentInfo
    \/ MainNoTemplate
    \/ ReadNameList
    \/ ReadStudentInfo
    \/ ReadStudentInfoRaises
    \/ GetWorkdays
    \/ LoopSkip
    \/ LoopFill
    \/ LoopSave
    \/ LoopExit

Spec == Init /\ [][Next]_vars

-----------------------------------------------------------------------------
(* replace_placeholders on its own: any document made of the paragraphs    *)
(* below, any of the field values below.                                   *)

\* exactly the join-date marker
JoinOnlyPara == <<Run(JoinMarker, BodyFont)>>
\* the three markers in one paragraph, over three runs
MultiPara == <<Run(<<"zheng", "ming">> \o IdentityMarker, BodyFont),
               Run(JoinMarker \o <<"zhi">>, HeadingFont),
               Run(IssueMarker, BodyFont)>>
\* no marker: the start of the join-date marker and the end of the other
NearPara == <<Run(<<"*", "*", "nian", "*", "*", "yue">>, HeadingFont),
              Run(<<" ", " ", "yue", " ", " ", " ", "ri">>, BodyFont)>>

FillParas == {TitlePara, IdPara, JoinPara, JoinOnlyPara, IssuePara, MultiPara,
              NearPara}

\* the longest document
MaxParas == 2

FillDocs == UNION {[1..n -> FillParas] : n \in 1..MaxParas}

FillNames == {ZhangSan, WangWu}
FillGenders == {Male, Female}
\* a major, and a cell that holds the text of the join-date marker
FillMajors == {SoftwareEng, JoinMarker}
FillJoinDates == {d \in Range(first_half_workdays) : d.day \in {3, 14}}
FillIssueDates == {d \in Range(second_half_workdays) : d.day \in {17, 31}}

InitFill ==
    /\ exists = Paths
    /\ name_lines = <<>>
    /\ sheet_columns = RequiredColumns
    /\ sheet_rows = <<>>
    /\ template \in FillDocs
    /\ pc = "fill"
    /\ \E n \in FillNames, g \in FillGenders, m \in FillMajors :
          /\ names = <<n>>
          /\ student_info = (n :> Row(n, g, Id430, m))
    /\ first_half = first_half_workdays
    /\ second_half = second_half_workdays
    /\ idx = 1
    /\ join_date \in FillJoinDates
    /\ issue_date \in FillIssueDates
    /\ doc = NoDoc
    /\ dir_exists = FALSE
    /\ files = NoFiles
    /\ stdout = <<>>

\* the fields of the student being processed
CurName == names[idx]
CurInfo == student_info[CurName]

\* doc = replace_placeholders(doc, name, gender, id_card, major, join, issue)
Fill ==
    /\ pc = "fill"
    /\ doc' = replace_placeholders(template, CurName, CurInfo.xingbie,
                  CurInfo.shenfenzhenghao, CurInfo.zhuanye, join_date, issue_date)
    /\ pc' = "filled"
    /\ UNCHANGED <<inputs, names, student_info, first_half, second_half, idx,
                   join_date, issue_date, dir_exists, files, stdout>>

NextFill == Fill

SpecFill == InitFill /\ [][NextFill]_vars

-----------------------------------------------------------------------------
(* Properties of get_workdays                                              *)

\* the calendar: July 2025 has 31 days and starts on a Tuesday (Monday = 0)
JulyDays == 31
JulyFirstWeekday == 1

\* process_certificates ran to completion
Completed == pc = "exit" /\ Paths \subseteq exists

\* get_workdays has returned
PoolsReady == pc \in {"loop", "save"} \/ Completed

\* the days lo..hi, in order, that are Monday to Friday in a month whose
\* first day has weekday w
RECURSIVE WeekdaysAmong(_, _, _)
WeekdaysAmong(lo, hi, w) ==
    IF lo > hi THEN <<>>
    ELSE (IF (w + lo - 1) % 7 < 5 THEN <<lo>> ELSE <<>>)
             \o WeekdaysAmong(lo + 1, hi, w)

WeekendDays(lo, hi, w) == {d \in lo..hi : (w + d - 1) % 7 >= 5}

DaysOf(pool) == [i \in 1..Len(pool) |-> pool[i].day]

\* the pools are these of a month of n days whose first day has weekday w
PoolsOfMonth(n, w) ==
    /\ DaysOf(first_half) = WeekdaysAmong(1, 15, w)
    /\ DaysOf(second_half) = WeekdaysAmong(16, n, w)

\* C6, as stated: for any month (28..31 days, any starting weekday) the
\* generator returns the Monday-Friday dates of days 1-15 and of days 16-N of
\* that month.
C6_AnyMonth ==
    PoolsReady => \A n \in 28..31, w \in 0..6 : PoolsOfMonth(n, w)

\* C6, amended: for July 2025, the one month the generator is written for, the
\* first pool is exactly the Monday-Friday dates among days 1-15, the second
\* exactly those among days 16-31, each in chronological order, all of them
\* dates of July 2025, none a Saturday or a Sunday.
C6_July2025 ==
    PoolsReady =>
        /\ PoolsOfMonth(JulyDays, JulyFirstWeekday)
        /\ \A d \in Range(first_half) \cup Range(second_half) :
              /\ d.year = 2025 /\ d.month = 7
              /\ (JulyFirstWeekday + d.day - 1) % 7 \notin {5, 6}
        /\ \A i \in 1..(Len(first_half) - 1) : first_half[i].day < first_half[i + 1].day
        /\ \A i \in 1..(Len(second_half) - 1) :
              second_half[i].day < second_half[i + 1].day

C6_Witness == pc = "loop" /\ idx = 1 /\ Len(second_half) = 12

\* C7, as stated: the first-half pool has exactly 11 dates, which are Jul
\* 1-15 without the TWO weekend days these contain, and the second-half pool
\* is the weekdays among days 16-31.
C7_TwoWeekendDays ==
    PoolsReady =>
        /\ Len(first_half) = 11
        /\ Cardinality(WeekendDays(1, 15, JulyFirstWeekday)) = 2
        /\ Range(DaysOf(first_half)) = (1..15) \ WeekendDays(1, 15, JulyFirstWeekday)
        /\ DaysOf(second_half) = WeekdaysAmong(16, 31, JulyFirstWeekday)

\* C7, amended: the first-half pool has exactly 11 dates, which are Jul 1-15
\* without the FOUR weekend days these contain (5, 6, 12 and 13 July), and the
\* second-half pool is the weekdays among days 16-31.
C7_FourWeekendDays ==
    PoolsReady =>
        /\ Len(first_half) = 11
        /\ WeekendDays(1, 15, JulyFirstWeekday) = {5, 6, 12, 13}
        /\ Range(DaysOf(first_half)) = (1..15) \ {5, 6, 12, 13}
        /\ DaysOf(second_half) = WeekdaysAmong(16, 31, JulyFirstWeekday)

C7_Witness == pc = "loop" /\ idx = 1 /\ Len(first_half) = 11 /\ first_half[1].day = 1

-----------------------------------------------------------------------------
(* Properties of a run                                                     *)

\* how many times x occurs in seq
Count(seq, x) == Cardinality({i \in 1..Len(seq) : seq[i] = x})

Warnings == SelectSeq(stdout, LAMBDA m : m.kind = "warning")

\* the roster and the directory, as the input files give them
RosterNames == Range(read_name_list(name_lines))
DirectoryNames == {sheet_rows[i].xingming : i \in 1..Len(sheet_rows)}

\* every roster name of the directory has its file
ValidNamesServed ==
    \A n \in RosterNames \cap DirectoryNames : OutputName(n) \in DOMAIN files

\* C1, as stated: after a complete run, a roster name that is not in the
\* directory has no output file and exactly one warning, and every roster name
\* of the directory has its output file.
C1_ExactlyOneWarning ==
    Completed =>
        /\ \A n \in RosterNames \ DirectoryNames :
              /\ OutputName(n) \notin DOMAIN files
              /\ Count(Warnings, Out("warning", n)) = 1
        /\ ValidNamesServed

\* C1, amended: after a complete run, a roster name that is not in the
\* directory has no output file and exactly one warning for each time it
\* occurs in the roster, and every roster name of the directory has its output
\* file.
C1_OneWarningPerOccurrence ==
    Completed =>
        /\ \A n \in RosterNames \ DirectoryNames :
              /\ OutputName(n) \notin DOMAIN files
              /\ Count(Warnings, Out("warning", n))
                     = Count(read_name_list(name_lines), n)
        /\ ValidNamesServed

C1_Witness ==
    /\ Completed
    /\ names = <<WangWu, ZhangSan>>
    /\ DirectoryNames = {ZhangSan}
    /\ Len(Warnings) = 1
    /\ DOMAIN files = {OutputName(ZhangSan)}

\* C2: whatever dates are drawn, a complete run leaves exactly one output
\* file per matched student, named <name>.doc, and none for an unmatched name:
\* the set of file names is a function of the roster and the directory alone.
C2_OneFilePerMatchedStudent ==
    Completed =>
        DOMAIN files = {n \o <<".doc">> : n \in RosterNames \cap DirectoryNames}

C2_Witness ==
    /\ Completed
    /\ Cardinality(DOMAIN files) = 2
    /\ join_date = NoDate
    /\ \E i \in 1..Len(template) : Contains(ParaText(template[i]), JoinMarker)

NoOutput == ~dir_exists /\ files = NoFiles

NothingProcessed ==
    /\ names = <<>> /\ DOMAIN student_info = {} /\ first_half = <<>>
    /\ second_half = <<>> /\ doc = NoDoc /\ NoOutput

ErrorReported ==
    pc = "exit" => Len(stdout) = 1 /\ stdout[1].kind = "error"
                      /\ stdout[1].arg[1] \notin exists

C8_NoContamination ==
    [][/\ template' = template
       /\ pc' = "save" =>
             doc' = replace_placeholders(template, names'[idx'],
                        student_info'[names'[idx']].xingbie,
                        student_info'[names'[idx']].shenfenzhenghao,
                        student_info'[names'[idx']].zhuanye,
                        join_date', issue_date')
       /\ pc = "save" =>
             /\ files'[OutputName(names[idx])] = doc
             /\ \A f \in DOMAIN files \ {OutputName(names[idx])} :
                   files'[f] = files[f]]_vars

C8_Witness ==
    /\ pc = "save"
    /\ names = <<ZhangSan, WangWu>>
    /\ idx = 2
    /\ OutputName(ZhangSan) \in DOMAIN files
    /\ doc # files[OutputName(ZhangSan)]

\* a is earlier than b
Before(a, b) ==
    \/ a.year < b.year
    \/ a.year = b.year /\ a.month < b.month
    \/ a.year = b.year /\ a.month = b.month /\ a.day < b.day

InJuly2025(d) == d.year = 2025 /\ d.month = 7 /\ d.day \in 1..JulyDays

MondayToFriday(d) == (JulyFirstWeekday + d.day - 1) % 7 \in 0..4

\* C10: in every document generated, the join date is an element of the
\* first-half pool and the issue date one of the second-half pool: both are
\* Monday-Friday dates of July 2025, the join date is strictly earlier than the
\* issue date, and the dates written in the document are these.
C10_DatesFromPools ==
    pc = "save" =>
        /\ join_date \in Range(first_half)
        /\ issue_date \in Range(second_half)
        /\ InJuly2025(join_date) /\ MondayToFriday(join_date)
        /\ InJuly2025(issue_date) /\ MondayToFriday(issue_date)
        /\ Before(join_date, issue_date)
        /\ \A i \in 1..Len(template) :
              /\ Contains(ParaText(template[i]), JoinMarker) =>
                    Contains(ParaText(doc[i]), strftime(join_date))
              /\ Contains(ParaText(template[i]), IssueMarker) =>
                    Contains(ParaText(doc[i]), strftime(issue_date))

C10_Witness ==
    /\ pc = "save"
    /\ join_date.day = 15
    /\ issue_date.day = 16
    /\ idx = 2
    /\ files # NoFiles

-----------------------------------------------------------------------------
(* Properties of replace_placeholders                                      *)

Markers == {IdentityMarker, JoinMarker, IssueMarker}

MarkersIn(para) == {m \in Markers : Contains(ParaText(para), m)}

\* C4: a paragraph whose text contains none of the three markers is left as
\* it was: its text and the font family, size and east-Asian font of every one
\* of its runs are the same before and after the call.
C4_NonMatchingUntouched ==
    pc = "filled" =>
        /\ Len(doc) = Len(template)
        /\ \A i \in 1..Len(template) :
              MarkersIn(template[i]) = {} =>
                  /\ ParaText(doc[i]) = ParaText(template[i])
                  /\ Len(doc[i]) = Len(template[i])
                  /\ \A r \in 1..Len(template[i]) :
                        /\ doc[i][r].text = template[i][r].text
                        /\ doc[i][r].name = template[i][r].name
                        /\ doc[i][r].size = template[i][r].size
                        /\ doc[i][r].eastAsia = template[i][r].eastAsia

C4_Witness ==
    /\ pc = "filled"
    /\ template = <<NearPara, IdPara>>
    /\ doc[1] = NearPara
    /\ doc[2] # IdPara
    /\ doc[2][1].name = SimSun

\* YYYY<nian>MM<yue>DD<ri>, zero-padded
ChineseDate(d) ==
    <<Digit(d.year \div 1000), Digit((d.year \div 100) % 10),
      Digit((d.year \div 10) % 10), Digit(d.year % 10), "nian",
      Digit(d.month \div 10), Digit(d.month % 10), "yue",
      Digit(d.day \div 10), Digit(d.day % 10), "ri">>

\* <name>,<gender>,...<major>...<identityNumber>)
IdentitySentence ==
    CurName \o <<"comma">> \o CurInfo.xingbie
        \o <<"comma", "xi", "hu", "nan2", "li", "gong", "xue", "yuan", "xin",
             "xi2", "ke", "xue", "yu", "gong", "cheng", "xue", "yuan">>
        \o CurInfo.zhuanye
        \o <<"zhuan", "ye", "2", "0", "2", "5", "jie", "bi", "ye", "sheng",
             "lparen", "shen", "fen", "zheng", "hao", "colon">>
        \o CurInfo.shenfenzhenghao \o <<"rparen">>

\* C5, as stated: a paragraph that is exactly one marker becomes, for the
\* identity marker the identity sentence with name, gender, major and identity
\* number, for the join-date marker the join date as zero-padded
\* YYYY<nian>MM<yue>DD<ri>, for the issue-date marker the issue date likewise.
C5_ExactlyOneMarker ==
    pc = "filled" =>
        \A i \in 1..Len(template) :
            /\ ParaText(template[i]) = IdentityMarker =>
                  ParaText(doc[i]) = IdentitySentence
            /\ ParaText(template[i]) = JoinMarker =>
                  ParaText(doc[i]) = ChineseDate(join_date)
            /\ ParaText(template[i]) = IssueMarker =>
                  ParaText(doc[i]) = ChineseDate(issue_date)

\* the example of the specification: Zhang San, male, software engineering,
\* 430XXXXXXXXXXXXXXX, joined 2025-07-03, issued 2025-07-17
SpecExample ==
    (/\ pc = "filled"
     /\ CurInfo = Row(ZhangSan, Male, Id430, SoftwareEng)
     /\ join_date = datetime(2025, 7, 3)
     /\ issue_date = datetime(2025, 7, 17)) =>
        \A i \in 1..Len(template) :
            /\ ParaText(template[i]) = IdentityMarker =>
                  ParaText(doc[i]) =
                      <<"zhang", "san", "comma", "nan", "comma", "xi", "hu",
                        "nan2", "li", "gong", "xue", "yuan", "xin", "xi2", "ke",
                        "xue", "yu", "gong", "cheng", "xue", "yuan", "ruan",
                        "jian", "gong", "cheng", "zhuan", "ye", "2", "0", "2",
                        "5", "jie", "bi", "ye", "sheng", "lparen", "shen",
                        "fen", "zheng", "hao", "colon", "4", "3", "0", "X", "X",
                        "X", "X", "X", "X", "X", "X", "X", "X", "X", "X", "X",
                        "X", "X", "rparen">>
            /\ ParaText(template[i]) = JoinMarker =>
                  ParaText(doc[i]) = <<"2", "0", "2", "5", "nian", "0", "7",
                                       "yue", "0", "3", "ri">>
            /\ ParaText(template[i]) = IssueMarker =>
                  ParaText(doc[i]) = <<"2", "0", "2", "5", "nian", "0", "7",
                                       "yue", "1", "7", "ri">>

IsPrefix(p, s) == Len(p) <= Len(s) /\ SubSeq(s, 1, Len(p)) = p

\* s with every marker occurrence replaced by its own substitute, in one pass:
\* what is put in is not looked at again
RECURSIVE Independent(_)
Independent(s) ==
    IF s = <<>> THEN <<>>
    ELSE IF IsPrefix(IdentityMarker, s)
         THEN IdentitySentence
                  \o Independent(SubSeq(s, Len(IdentityMarker) + 1, Len(s)))
    ELSE IF IsPrefix(JoinMarker, s)
         THEN ChineseDate(join_date)
                  \o Independent(SubSeq(s, Len(JoinMarker) + 1, Len(s)))
    ELSE IF IsPrefix(IssueMarker, s)
         THEN ChineseDate(issue_date)
                  \o Independent(SubSeq(s, Len(IssueMarker) + 1, Len(s)))
    ELSE <<Head(s)>> \o Independent(Tail(s))

\* C9: in a paragraph that matches more than one marker the replacements are
\* independent: the text becomes the original text with each marker occurrence
\* replaced by its own substitute, and what one replacement puts in is never
\* rewritten by another.
C9_IndependentReplacements ==
    pc = "filled" =>
        \A i \in 1..Len(template) :
            Cardinality(MarkersIn(template[i])) > 1 =>
                ParaText(doc[i]) = Independent(ParaText(template[i]))

\* the same, for field values in which no marker occurs
C9_PlainFields ==
    (pc = "filled" /\ \A m \in Markers : ~Contains(IdentitySentence, m)) =>
        \A i \in 1..Len(template) :
            ParaText(doc[i]) = Independent(ParaText(template[i]))

=============================================================================
